---- MODULE Spec2Model ----
(***************************************************************************)
(* Neuron-evolution visualisation: the tokenizer, the common-term          *)
(* extractor and the token highlighter of create_interactive_visualization *)
(* .py and streamlit_app.py.  A string is a sequence of one-character      *)
(* strings; a Python dict is a sequence of <<key, value>> pairs in         *)
(* insertion order; an activation 0.1 / 0.9 is kept in tenths (1 / 9).     *)
(* A behaviour either puts one input together and makes one call, or runs  *)
(* one of the two renderers (the static export and its page, or the        *)
(* dashboard) on the series files of a disk.                               *)
(***************************************************************************)
EXTENDS Integers, Sequences, FiniteSets, TLC

VARIABLES
    texts,            \* the input: a list of texts (a cluster's text_examples)
    built,            \* how many steps put the input together
    pc,               \* "build" while the input grows, "returned" after the call
    call,             \* the function called and its arguments
    tokens,           \* the local tokens: the matches tokenize_text found, or
                      \* the token list a highlighter works on
    common_words,     \* the highlighter's local common_words
    word_counts,      \* analyze_common_words' local dicts, as they are at return
    fragment_counts,
    all_counts,
    ret,              \* the value returned
    program,          \* which renderer runs: "none", "export" or "dashboard"
    disk,             \* the series files under results/
    status,           \* how far the renderer got
    messages,         \* the messages reported so far (print, st.error)
    html_written,     \* interactive_visualization.html has been written
    controls,         \* the input widgets the dashboard's last run created
    all_neuron_data,  \* neuron id -> series, as <<id, series>> pairs
    available_neurons,
    checkpoint_steps, \* the export's checkpointSteps / the dashboard slider's options
    model_name,       \* the dashboard's model selector
    layer,            \* the value of the layer input
    neuron,           \* the value of the neuron input
    currentNeuron,
    currentCheckpointStep,
    currentData,      \* the record of the left panel: <<>> or <<record>>
    finalData,        \* the record of the right panel: <<>> or <<record>>
    leftContent,
    rightContent

\* the state of a function call
calls == <<texts, built, pc, call, tokens, common_words, word_counts, fragment_counts,
           all_counts, ret>>

\* the state of a renderer
render == <<program, disk, status, messages, html_written, controls, all_neuron_data,
            available_neurons, checkpoint_steps, model_name, layer, neuron,
            currentNeuron, currentCheckpointStep, currentData, finalData,
            leftContent, rightContent>>

vars == <<calls, render>>

(***************************************************************************)
(* Character classes of Python 3 str / re (Unicode patterns).              *)
(***************************************************************************)
LowerSeq == <<"a","b","c","d","e","f","g","h","i","j","k","l","m",
              "n","o","p","q","r","s","t","u","v","w","x","y","z">>

UpperSeq == <<"A","B","C","D","E","F","G","H","I","J","K","L","M",
              "N","O","P","Q","R","S","T","U","V","W","X","Y","Z">>

\* [a-z]
AsciiLower == {LowerSeq[i] : i \in 1..Len(LowerSeq)}

AsciiUpper == {UpperSeq[i] : i \in 1..Len(UpperSeq)}

Digits == {"0","1","2","3","4","5","6","7","8","9"}

\* letters outside ASCII: e with acute accent, lower and upper case, each one
\* character, written by name
NonAsciiLower == {"eacute"}

NonAsciiUpper == {"Eacute"}

\* \s and str.strip(): the characters str.isspace() accepts
WhitespaceChars == {" ", "\t", "\n", "\r", "\f"}

\* \w of a str pattern: Unicode alphanumerics and the underscore
IsWordChar(c) ==
    c \in AsciiLower \cup AsciiUpper \cup Digits \cup {"_"}
          \cup NonAsciiLower \cup NonAsciiUpper

IsSpace(c) == c \in WhitespaceChars

\* str.lower(), one character
LowerChar(c) ==
    IF c \in AsciiUpper
    THEN LowerSeq[CHOOSE i \in 1..Len(UpperSeq) : UpperSeq[i] = c]
    ELSE IF c \in NonAsciiUpper THEN "eacute" ELSE c

\* str.lower()
lower(s) == SubSeq([i \in 1..Len(s) |-> LowerChar(s[i])], 1, Len(s))

\* ' '.join(texts)
RECURSIVE join(_)
join(ts) ==
    IF Len(ts) = 0 THEN <<>>
    ELSE IF Len(ts) = 1 THEN ts[1]
    ELSE ts[1] \o <<" ">> \o join(Tail(ts))

\* a in b, for str
IsSubstring(a, b) ==
    \E i \in 0..(Len(b) - Len(a)) : SubSeq(b, i + 1, i + Len(a)) = a

\* the items of a list, as a set
Elements(s) == {s[i] : i \in 1..Len(s)}

Min(a, b) == IF a <= b THEN a ELSE b

(***************************************************************************)
(* tokenize_text: re.findall(r'\S+|\s+', text), then the strip() filter.   *)
(***************************************************************************)
\* the end of the greedy run (\S+ or \s+) that starts at i
RunEnd(s, i, space) ==
    CHOOSE j \in i..Len(s) :
        /\ \A k \in i..j : IsSpace(s[k]) = space
        /\ j = Len(s) \/ IsSpace(s[j + 1]) # space

\* a findall whose pattern is \S+ alone: whitespace is skipped, not matched
RECURSIVE FindRunsNonSpace(_, _)
FindRunsNonSpace(s, i) ==
    IF i > Len(s) THEN <<>>
    ELSE LET j == RunEnd(s, i, IsSpace(s[i]))
         IN  (IF IsSpace(s[i]) THEN <<>> ELSE <<SubSeq(s, i, j)>>)
                 \o FindRunsNonSpace(s, j + 1)

\* re.findall(r'\S+|\s+', text): scan left to right, each match greedy
RECURSIVE FindRuns(_, _)
FindRuns(s, i) ==
    IF i > Len(s) THEN <<>>
    ELSE LET j == RunEnd(s, i, IsSpace(s[i]))
         IN  <<SubSeq(s, i, j)>> \o FindRuns(s, j + 1)

\* str.strip(): leading and trailing whitespace removed
strip(s) ==
    LET kept == {i \in 1..Len(s) : ~IsSpace(s[i])}
    IN  IF kept = {} THEN <<>>
        ELSE SubSeq(s, CHOOSE i \in kept : \A j \in kept : i <= j,
                       CHOOSE i \in kept : \A j \in kept : j <= i)

\* tokenize_text without its strip() filter
tokenize_text_unfiltered(text) == FindRuns(text, 1)

tokenize_text(text) ==
    SelectSeq(FindRuns(text, 1), LAMBDA token : strip(token) # <<>>)

(***************************************************************************)
(* analyze_common_words                                                    *)
(***************************************************************************)
stop_words == {
    <<"t","h","e">>, <<"a">>, <<"a","n">>, <<"a","n","d">>, <<"o","r">>, <<"b","u","t">>,
    <<"i","n">>, <<"o","n">>, <<"a","t">>, <<"t","o">>, <<"f","o","r">>, <<"o","f">>,
    <<"w","i","t","h">>, <<"b","y">>, <<"f","r","o","m">>, <<"u","p">>, <<"a","b","o","u","t">>,
    <<"i","n","t","o">>, <<"t","h","r","o","u","g","h">>, <<"d","u","r","i","n","g">>,
    <<"b","e","f","o","r","e">>, <<"a","f","t","e","r">>, <<"a","b","o","v","e">>,
    <<"b","e","l","o","w">>, <<"b","e","t","w","e","e","n">>, <<"a","m","o","n","g">>,
    <<"t","h","i","s">>, <<"t","h","a","t">>, <<"t","h","e","s","e">>, <<"t","h","o","s","e">>,
    <<"i">>, <<"y","o","u">>, <<"h","e">>, <<"s","h","e">>, <<"i","t">>, <<"w","e">>,
    <<"t","h","e","y">>, <<"m","e">>, <<"h","i","m">>, <<"h","e","r">>, <<"u","s">>,
    <<"t","h","e","m">>, <<"m","y">>, <<"y","o","u","r">>, <<"h","i","s">>, <<"i","t","s">>,
    <<"o","u","r">>, <<"t","h","e","i","r">>, <<"i","s">>, <<"a","r","e">>, <<"w","a","s">>,
    <<"w","e","r","e">>, <<"b","e">>, <<"b","e","e","n">>, <<"b","e","i","n","g">>,
    <<"h","a","v","e">>, <<"h","a","s">>, <<"h","a","d">>, <<"d","o">>, <<"d","o","e","s">>,
    <<"d","i","d">>, <<"w","i","l","l">>, <<"w","o","u","l","d">>, <<"c","o","u","l","d">>,
    <<"s","h","o","u","l","d">>, <<"m","a","y">>, <<"m","i","g","h","t">>, <<"c","a","n">>,
    <<"m","u","s","t">>, <<"s","h","a","l","l">>, <<"n","o","t">>, <<"n","o">>, <<"y","e","s">>,
    <<"a","s">>, <<"s","o">>, <<"i","f">>, <<"w","h","e","n">>, <<"w","h","e","r","e">>,
    <<"w","h","y">>, <<"h","o","w">>, <<"w","h","a","t">>, <<"w","h","o">>,
    <<"w","h","i","c","h">>, <<"w","h","o","s","e">>, <<"w","h","o","m">>, <<"a","l","l">>,
    <<"a","n","y">>, <<"s","o","m","e">>, <<"m","a","n","y">>, <<"f","e","w">>,
    <<"m","o","s","t">>, <<"m","o","r","e">>, <<"l","e","s","s">>, <<"m","u","c","h">>,
    <<"l","i","t","t","l","e">>, <<"v","e","r","y">>, <<"t","o","o">>, <<"a","l","s","o">>,
    <<"o","n","l","y">>, <<"j","u","s","t">>, <<"e","v","e","n">>, <<"s","t","i","l","l">>,
    <<"a","g","a","i","n">>, <<"h","e","r","e">>, <<"t","h","e","r","e">>, <<"n","o","w">>,
    <<"t","h","e","n">>, <<"t","o","d","a","y">>, <<"y","e","s","t","e","r","d","a","y">>,
    <<"t","o","m","o","r","r","o","w">>, <<"o","n","e">>, <<"t","w","o">>, <<"t","h","r","e","e">>,
    <<"f","i","r","s","t">>, <<"s","e","c","o","n","d">>, <<"t","h","i","r","d">>,
    <<"l","a","s","t">>, <<"n","e","x","t">>
}

FragmentThreshold == 5

WholeWordWeight == 2

MaxFragmentLen == 7

DefaultMinLength == 3

DefaultTopN == 2

\* \b at the gap before position i (1..Len(s)+1): exactly one neighbour is \w
WordBoundary(s, i) ==
    LET before == i > 1 /\ IsWordChar(s[i - 1])
        after  == i <= Len(s) /\ IsWordChar(s[i])
    IN  before # after

\* the end of the greedy [a-z]+ that starts at i
LetterRunEnd(s, i) ==
    CHOOSE j \in i..Len(s) :
        /\ \A k \in i..j : s[k] \in AsciiLower
        /\ j = Len(s) \/ s[j + 1] \notin AsciiLower

\* whether \b[a-z]+\b matches at i: a \b, then the longest [a-z]+, backtracking
\* to the longest prefix that a \b follows
MatchEnds(s, i) ==
    IF s[i] \in AsciiLower /\ WordBoundary(s, i)
    THEN {k \in i..LetterRunEnd(s, i) : WordBoundary(s, k + 1)}
    ELSE {}

\* re.findall(r'[a-z]+', s): the pattern without its \b anchors
RECURSIVE FindWordsNoBoundary(_, _)
FindWordsNoBoundary(s, i) ==
    LET starts == {k \in i..Len(s) : s[k] \in AsciiLower}
    IN  IF starts = {} THEN <<>>
        ELSE LET k == CHOOSE x \in starts : \A y \in starts : x <= y
             IN  <<SubSeq(s, k, LetterRunEnd(s, k))>>
                     \o FindWordsNoBoundary(s, LetterRunEnd(s, k) + 1)

\* re.findall(r'\b[a-z]+\b', s): the scan goes on from i to the first position
\* where the pattern matches, takes the match and resumes after it
RECURSIVE FindWords(_, _)
FindWords(s, i) ==
    LET starts == {k \in i..Len(s) : MatchEnds(s, k) # {}}
    IN  IF starts = {} THEN <<>>
        ELSE LET k == CHOOSE x \in starts : \A y \in starts : x <= y
                 j == CHOOSE x \in MatchEnds(s, k) : \A y \in MatchEnds(s, k) : y <= x
             IN  <<SubSeq(s, k, j)>> \o FindWords(s, j + 1)

\* d.get(k, 0)
DictGet(d, k) ==
    IF \E i \in 1..Len(d) : d[i][1] = k
    THEN d[CHOOSE i \in 1..Len(d) : d[i][1] = k][2]
    ELSE 0

HasKey(d, k) == \E i \in 1..Len(d) : d[i][1] = k

\* d[k] = v: an existing key keeps its place, a new key goes last
DictSet(d, k, v) ==
    IF HasKey(d, k)
    THEN LET i == CHOOSE j \in 1..Len(d) : d[j][1] = k
         IN  SubSeq(d, 1, i - 1) \o <<<<k, v>>>> \o SubSeq(d, i + 1, Len(d))
    ELSE Append(d, <<k, v>>)

\* the filter with len(word) > min_length
SurvivesStrictLength(word, min_length) == Len(word) > min_length /\ word \notin stop_words

\* the filter without its stop-word test
SurvivesLengthOnly(word, min_length) == Len(word) >= min_length

\* if len(word) >= min_length and word not in stop_words
Survives(word, min_length) == Len(word) >= min_length /\ word \notin stop_words

\* the dict a loop "counts[item] = counts.get(item, 0) + 1" over items leaves:
\* a key enters at its first occurrence and keeps that place, its value is the
\* number of its occurrences
Tally(items) ==
    LET n == Len(items)
        first == SelectSeq([i \in 1..n |-> i],
                           LAMBDA i : \A j \in 1..(i - 1) : items[j] # items[i])
        count(key) == Cardinality({j \in 1..n : items[j] = key})
    IN  SubSeq([m \in 1..Len(first) |-> <<items[first[m]], count(items[first[m]])>>],
               1, Len(first))

\* the words both loops act on, in order
SurvivingWords(words, min_length) ==
    SelectSeq(words, LAMBDA word : Survives(word, min_length))

\* for start in range(len(word) - frag_len + 1): the fragments counted, in order
RECURSIVE FragmentsAt(_, _, _)
FragmentsAt(word, frag_len, start) ==
    IF start > Len(word) - frag_len THEN <<>>
    ELSE LET fragment == SubSeq(word, start + 1, start + frag_len)
         IN  (IF fragment \notin stop_words THEN <<fragment>> ELSE <<>>)
                 \o FragmentsAt(word, frag_len, start + 1)

\* for frag_len in range(min_length, min(len(word) + 1, 8))
RECURSIVE FragmentsOfLengths(_, _, _)
FragmentsOfLengths(word, frag_len, stop) ==
    IF frag_len >= stop THEN <<>>
    ELSE FragmentsAt(word, frag_len, 0) \o FragmentsOfLengths(word, frag_len + 1, stop)

\* the fragment loop over the surviving words
RECURSIVE Fragments(_, _)
Fragments(words, min_length) ==
    IF words = <<>> THEN <<>>
    ELSE FragmentsOfLengths(Head(words), min_length,
                            Min(Len(Head(words)) + 1, MaxFragmentLen + 1))
             \o Fragments(Tail(words), min_length)

\* for word, count in word_counts.items(): all_counts[word] = count * 2
AddWholeWords(wc) ==
    SubSeq([i \in 1..Len(wc) |-> <<wc[i][1], wc[i][2] * WholeWordWeight>>], 1, Len(wc))

\* the merge step assigning where the code adds
MergeFragmentOverwrite(counts, fragment, count) ==
    IF count >= FragmentThreshold THEN DictSet(counts, fragment, count) ELSE counts

\* one step of the merge loop: all_counts after the item (fragment, count)
MergeFragment(counts, fragment, count) ==
    IF count >= FragmentThreshold
    THEN IF ~HasKey(counts, fragment)
         THEN DictSet(counts, fragment, count)
         ELSE DictSet(counts, fragment, DictGet(counts, fragment) + count)
    ELSE counts

\* for fragment, count in fragment_counts.items(): ... (all_counts after the
\* items from the k-th on)
RECURSIVE AddFragments(_, _, _)
AddFragments(fc, k, counts) ==
    IF k > Len(fc) THEN counts
    ELSE IF fc[k][2] < FragmentThreshold THEN AddFragments(fc, k + 1, counts)
    ELSE AddFragments(fc, k + 1, MergeFragment(counts, fc[k][1], fc[k][2]))

\* sorted(items, key=lambda x: x[1]): the sort without reverse=True
RECURSIVE SortByCountAscending(_)
SortByCountAscending(items) ==
    IF items = <<>> THEN <<>>
    ELSE LET best == CHOOSE i \in 1..Len(items) :
                         /\ \A j \in 1..Len(items) : items[i][2] <= items[j][2]
                         /\ \A j \in 1..(i - 1) : items[i][2] < items[j][2]
             rest == SubSeq(items, 1, best - 1) \o SubSeq(items, best + 1, Len(items))
         IN  <<items[best]>> \o SortByCountAscending(rest)

\* sorted(items, key=lambda x: x[1], reverse=True): stable, so equal scores
\* keep their dict order
RECURSIVE SortByCount(_)
SortByCount(items) ==
    IF items = <<>> THEN <<>>
    ELSE LET best == CHOOSE i \in 1..Len(items) :
                         /\ \A j \in 1..Len(items) : items[j][2] <= items[i][2]
                         /\ \A j \in 1..(i - 1) : items[j][2] < items[i][2]
             rest == SubSeq(items, 1, best - 1) \o SubSeq(items, best + 1, Len(items))
         IN  <<items[best]>> \o SortByCount(rest)

\* sorted_words[:top_n] for top_n >= 0
Slice(s, n) == SubSeq(s, 1, Min(n, Len(s)))

\* [word for word, count in items]
RECURSIVE Keys(_)
Keys(items) == IF items = <<>> THEN <<>> ELSE <<items[1][1]>> \o Keys(Tail(items))

\* the words list of analyze_common_words
CandidateWords(txts) == FindWords(lower(join(txts)), 1)

\* the locals of analyze_common_words when it reaches its sort
Locals(txts, min_length) ==
    LET words == SurvivingWords(CandidateWords(txts), min_length)
        wc == Tally(words)
        fc == Tally(Fragments(words, min_length))
        ac == AddFragments(fc, 1, AddWholeWords(wc))
    IN  [word_counts |-> wc, fragment_counts |-> fc, all_counts |-> ac,
         sorted_words |-> SortByCount(ac)]

analyze_common_words(txts, min_length, top_n) ==
    IF txts = <<>> THEN <<>>
    ELSE Keys(Slice(Locals(txts, min_length).sorted_words, top_n))

(***************************************************************************)
(* highlight_pattern (static export) and highlight_tokens (dashboard)      *)
(***************************************************************************)
Low == 1

High == 9

\* the cleaning step without token.lower()
CleanTokenKeepCase(token) == SelectSeq(token, IsWordChar)

\* re.sub(r'[^\w]', '', token.lower())
CleanToken(token) == SelectSeq(lower(token), IsWordChar)

\* the test with only "common_word in clean_token"
IsHighlightedOneWay(token, words) ==
    /\ CleanToken(token) # <<>>
    /\ \E k \in 1..Len(words) : IsSubstring(words[k], CleanToken(token))

\* the inner loop: some common word contains, or is contained in, the clean token
IsHighlighted(token, words) ==
    LET clean_token == CleanToken(token)
    IN  /\ clean_token # <<>>
        /\ \E k \in 1..Len(words) :
              \/ IsSubstring(words[k], clean_token)
              \/ IsSubstring(clean_token, words[k])

\* common_words = analyze_common_words(cluster_texts)
CommonWords(cluster_texts) ==
    analyze_common_words(cluster_texts, DefaultMinLength, DefaultTopN)

\* whether a highlighter returns before it analyses the cluster
ReturnsEarly(is_right_panel, cluster_texts) == cluster_texts = <<>> \/ ~is_right_panel

\* highlight_pattern without the is_right_panel test
highlight_pattern_any_panel(toks, is_right_panel, cluster_texts) ==
    IF cluster_texts = <<>> THEN [i \in 1..Len(toks) |-> Low]
    ELSE [i \in 1..Len(toks) |->
             IF IsHighlighted(toks[i], CommonWords(cluster_texts)) THEN High ELSE Low]

highlight_pattern(toks, is_right_panel, cluster_texts) ==
    IF cluster_texts = <<>> THEN [i \in 1..Len(toks) |-> Low]
    ELSE IF ~is_right_panel THEN [i \in 1..Len(toks) |-> Low]
    ELSE LET words == CommonWords(cluster_texts)
         IN  [i \in 1..Len(toks) |-> IF IsHighlighted(toks[i], words) THEN High ELSE Low]

\* the returned markup: the bare text, or one span per token
TextNode(text) == [node |-> "text", class |-> "none", body |-> text]

SpanNode(class, token) == [node |-> "span", class |-> class, body |-> token]

highlight_tokens(text, cluster_texts, is_right_panel) ==
    IF ~is_right_panel THEN <<TextNode(text)>>
    ELSE IF cluster_texts = <<>> THEN <<TextNode(text)>>
    ELSE LET words == CommonWords(cluster_texts)
             toks == tokenize_text(text)
         IN  [i \in 1..Len(toks) |->
                 IF IsHighlighted(toks[i], words)
                 THEN SpanNode("activation-high", toks[i])
                 ELSE SpanNode("activation-low", toks[i])]

(***************************************************************************)
(* Inputs: a list of texts put together from pieces, or a stored record.   *)
(***************************************************************************)
MaxPieces == 4

MaxTexts == 2

MaxMinLength == 3

MaxTopN == 3

\* a word, a stop word, a letter, an upper-case letter, a digit, a letter outside
\* ASCII, punctuation and whitespace
Pieces ==
    {<<"c","a","t">>, <<"t","h","e">>, <<"s">>, <<"C">>, <<"1">>, <<"eacute">>, <<",">>, <<" ">>}

\* text_examples of stored records
RecordCatSat ==
    << <<"t","h","e"," ","c","a","t"," ","s","a","t">>,
       <<"a"," ","c","a","t"," ","r","a","n">> >>

RecordCatDog == << <<"c","a","t"," ","c","a","t"," ","c","a","t"," ","d","o","g">> >>

RecordThe == << <<"t","h","e"," ","t","h","e"," ","t","h","e">> >>

RecordSpaces == << <<"a"," "," ","b">>, <<>> >>

RecordTabs == << <<"C","a","t",",","\t","c","a","t"," ","\t"," ","s","a","t","\n">> >>

\* "cat" five times inside words: a frequent fragment that is also a whole word
RecordCats ==
    << <<"c","a","t","s"," ","c","a","t">>,
       <<"c","a","t"," ","s","c","a","t"," ","C","a","t"," ","c","a","t","_","s">> >>

\* frequent fragments that are no whole words, with tied scores
RecordDogs ==
    << <<"d","o","g","s"," ","d","o","g","s"," ","d","o","g","s">>,
       <<"d","o","g","s",","," ","D","O","G","S","!"," ","c","a","t">> >>

\* a frequent word whose fragments "the" and "her" are stop words
RecordOther ==
    << <<"o","t","h","e","r"," ","o","t","h","e","r"," ","o","t","h","e","r">>,
       <<"o","t","h","e","r"," ","o","t","h","e","r">> >>

Records ==
    {RecordCatSat, RecordCatDog, RecordThe, RecordSpaces, RecordTabs, RecordCats,
     RecordDogs, RecordOther}

MinLengths == 1..MaxMinLength

TopNs == 0..MaxTopN

\* what a panel shows
Loading == [kind |-> "loading", message |-> "Loading...", clusters |-> <<>>]

ErrorContent(message) == [kind |-> "error", message |-> message, clusters |-> <<>>]

ClustersContent(clusters) == [kind |-> "clusters", message |-> "", clusters |-> clusters]

NoCall ==
    [op |-> "none", text |-> <<>>, cluster_texts |-> <<>>, min_length |-> 0,
     top_n |-> 0, is_right_panel |-> FALSE]

Init ==
    /\ texts = <<>>
    /\ built = 0
    /\ pc = "build"
    /\ call = NoCall
    /\ tokens = <<>>
    /\ common_words = <<>>
    /\ word_counts = <<>>
    /\ fragment_counts = <<>>
    /\ all_counts = <<>>
    /\ ret = <<>>
    /\ program = "none"
    /\ disk = {}
    /\ status = "start"
    /\ messages = {}
    /\ html_written = FALSE
    /\ controls = {}
    /\ all_neuron_data = <<>>
    /\ available_neurons = <<>>
    /\ checkpoint_steps = <<>>
    /\ model_name = "Pythia-70M"
    /\ layer = 0
    /\ neuron = 0
    /\ currentNeuron = <<0, 0>>
    /\ currentCheckpointStep = 0
    /\ currentData = <<>>
    /\ finalData = <<>>
    /\ leftContent = Loading
    /\ rightContent = Loading

analysis == <<word_counts, fragment_counts, all_counts>>

\* a record's text_examples are the input
LoadRecord(r) ==
    /\ pc = "build" /\ built = 0
    /\ texts' = r
    /\ built' = MaxPieces
    /\ UNCHANGED <<pc, call, tokens, common_words, analysis, ret, render>>

\* a further, empty text
NewText ==
    /\ pc = "build" /\ built < MaxPieces /\ Len(texts) < MaxTexts
    /\ texts' = Append(texts, <<>>)
    /\ built' = built + 1
    /\ UNCHANGED <<pc, call, tokens, common_words, analysis, ret, render>>

\* the last text grows by one piece
AddPiece(p) ==
    /\ pc = "build" /\ built < MaxPieces /\ Len(texts) > 0
    /\ texts' = [texts EXCEPT ![Len(texts)] = @ \o p]
    /\ built' = built + 1
    /\ UNCHANGED <<pc, call, tokens, common_words, analysis, ret, render>>

Build ==
    /\ program = "none"
    /\ \/ \E r \in Records : LoadRecord(r)
       \/ NewText
       \/ \E p \in Pieces : AddPiece(p)

\* the cluster_texts a highlighter call may be given
ClusterChoices == {<<>>, texts} \cup (IF texts = <<>> THEN {} ELSE {Tail(texts)})

TokenizeCall(i) ==
    /\ pc = "build"
    /\ pc' = "returned"
    /\ call' = [NoCall EXCEPT !.op = "tokenize_text", !.text = texts[i]]
    /\ tokens' = FindRuns(texts[i], 1)
    /\ ret' = tokenize_text(texts[i])
    /\ UNCHANGED <<texts, built, common_words, analysis, render>>

AnalyzeCall(min_length, top_n) ==
    /\ pc = "build"
    /\ pc' = "returned"
    /\ call' = [NoCall EXCEPT !.op = "analyze_common_words", !.cluster_texts = texts,
                              !.min_length = min_length, !.top_n = top_n]
    /\ LET locals == Locals(texts, min_length)
       IN  /\ word_counts' = IF texts = <<>> THEN <<>> ELSE locals.word_counts
           /\ fragment_counts' = IF texts = <<>> THEN <<>> ELSE locals.fragment_counts
           /\ all_counts' = IF texts = <<>> THEN <<>> ELSE locals.all_counts
    /\ ret' = analyze_common_words(texts, min_length, top_n)
    /\ UNCHANGED <<texts, built, tokens, common_words, render>>

HighlightPatternCall(i, cluster_texts, is_right_panel) ==
    /\ pc = "build"
    /\ pc' = "returned"
    /\ call' = [NoCall EXCEPT !.op = "highlight_pattern", !.text = texts[i],
                              !.cluster_texts = cluster_texts,
                              !.is_right_panel = is_right_panel]
    /\ tokens' = tokenize_text(texts[i])
    /\ common_words' = IF ReturnsEarly(is_right_panel, cluster_texts) THEN <<>>
                       ELSE CommonWords(cluster_texts)
    /\ ret' = highlight_pattern(tokenize_text(texts[i]), is_right_panel, cluster_texts)
    /\ UNCHANGED <<texts, built, analysis, render>>

HighlightTokensCall(i, cluster_texts, is_right_panel) ==
    /\ pc = "build"
    /\ pc' = "returned"
    /\ call' = [NoCall EXCEPT !.op = "highlight_tokens", !.text = texts[i],
                              !.cluster_texts = cluster_texts,
                              !.is_right_panel = is_right_panel]
    /\ tokens' = IF ReturnsEarly(is_right_panel, cluster_texts) THEN <<>>
                 ELSE tokenize_text(texts[i])
    /\ common_words' = IF ReturnsEarly(is_right_panel, cluster_texts) THEN <<>>
                       ELSE CommonWords(cluster_texts)
    /\ ret' = highlight_tokens(texts[i], cluster_texts, is_right_panel)
    /\ UNCHANGED <<texts, built, analysis, render>>

Tokenize == \E i \in 1..Len(texts) : TokenizeCall(i)

Analyze == \E min_length \in MinLengths, top_n \in TopNs : AnalyzeCall(min_length, top_n)

HighlightPattern ==
    \E i \in 1..Len(texts), c \in ClusterChoices, e \in BOOLEAN :
        HighlightPatternCall(i, c, e)

HighlightTokens ==
    \E i \in 1..Len(texts), c \in ClusterChoices, e \in BOOLEAN :
        HighlightTokensCall(i, c, e)


(***************************************************************************)
(* The client-side script of the static export (the JavaScript embedded in *)
(* the page that create_interactive_visualization writes).  Its patterns   *)
(* carry no u flag: \w and \b know the ASCII word characters only.         *)
(***************************************************************************)
\* \w of a JavaScript pattern without the u flag: [A-Za-z0-9_]
JsIsWordChar(c) == c \in AsciiLower \cup AsciiUpper \cup Digits \cup {"_"}

\* \s of a JavaScript pattern, and what trim() removes (of the characters used
\* here the same as Python's)
JsWhitespaceChars == {" ", "\t", "\n", "\r", "\f"}

JsIsSpace(c) == c \in JsWhitespaceChars

\* String.prototype.toLowerCase: the Unicode lower-case mapping, as str.lower()
toLowerCase(s) == SubSeq([i \in 1..Len(s) |-> LowerChar(s[i])], 1, Len(s))

\* String.prototype.trim
trim(s) ==
    LET kept == {i \in 1..Len(s) : ~JsIsSpace(s[i])}
    IN  IF kept = {} THEN <<>>
        ELSE SubSeq(s, CHOOSE i \in kept : \A j \in kept : i <= j,
                       CHOOSE i \in kept : \A j \in kept : j <= i)

\* the end of the greedy run (\S+ or \s+) that starts at i
JsRunEnd(s, i, space) ==
    CHOOSE j \in i..Len(s) :
        /\ \A k \in i..j : JsIsSpace(s[k]) = space
        /\ j = Len(s) \/ JsIsSpace(s[j + 1]) # space

\* text.match(/\S+|\s+/g) || []
RECURSIVE JsMatchRuns(_, _)
JsMatchRuns(s, i) ==
    IF i > Len(s) THEN <<>>
    ELSE LET j == JsRunEnd(s, i, JsIsSpace(s[i]))
         IN  <<SubSeq(s, i, j)>> \o JsMatchRuns(s, j + 1)

tokenizeText(text) ==
    SelectSeq(JsMatchRuns(text, 1), LAMBDA token : trim(token) # <<>>)

stopWords ==
    {<<"t","h","e">>, <<"a">>, <<"a","n">>, <<"a","n","d">>, <<"o","r">>, <<"b","u","t">>,
     <<"i","n">>, <<"o","n">>, <<"a","t">>, <<"t","o">>, <<"f","o","r">>, <<"o","f">>,
     <<"w","i","t","h">>, <<"b","y">>, <<"f","r","o","m">>, <<"u","p">>,
     <<"a","b","o","u","t">>, <<"i","n","t","o">>, <<"t","h","r","o","u","g","h">>,
     <<"d","u","r","i","n","g">>, <<"b","e","f","o","r","e">>, <<"a","f","t","e","r">>,
     <<"a","b","o","v","e">>, <<"b","e","l","o","w">>, <<"b","e","t","w","e","e","n">>,
     <<"a","m","o","n","g">>, <<"t","h","i","s">>, <<"t","h","a","t">>,
     <<"t","h","e","s","e">>, <<"t","h","o","s","e">>, <<"i">>, <<"y","o","u">>, <<"h","e">>,
     <<"s","h","e">>, <<"i","t">>, <<"w","e">>, <<"t","h","e","y">>, <<"m","e">>,
     <<"h","i","m">>, <<"h","e","r">>, <<"u","s">>, <<"t","h","e","m">>, <<"m","y">>,
     <<"y","o","u","r">>, <<"h","i","s">>, <<"i","t","s">>, <<"o","u","r">>,
     <<"t","h","e","i","r">>, <<"i","s">>, <<"a","r","e">>, <<"w","a","s">>,
     <<"w","e","r","e">>, <<"b","e">>, <<"b","e","e","n">>, <<"b","e","i","n","g">>,
     <<"h","a","v","e">>, <<"h","a","s">>, <<"h","a","d">>, <<"d","o">>, <<"d","o","e","s">>,
     <<"d","i","d">>, <<"w","i","l","l">>, <<"w","o","u","l","d">>, <<"c","o","u","l","d">>,
     <<"s","h","o","u","l","d">>, <<"m","a","y">>, <<"m","i","g","h","t">>, <<"c","a","n">>,
     <<"m","u","s","t">>, <<"s","h","a","l","l">>, <<"n","o","t">>, <<"n","o">>,
     <<"y","e","s">>, <<"a","s">>, <<"s","o">>, <<"i","f">>, <<"w","h","e","n">>,
     <<"w","h","e","r","e">>, <<"w","h","y">>, <<"h","o","w">>, <<"w","h","a","t">>,
     <<"w","h","o">>, <<"w","h","i","c","h">>, <<"w","h","o","s","e">>, <<"w","h","o","m">>,
     <<"a","l","l">>, <<"a","n","y">>, <<"s","o","m","e">>, <<"m","a","n","y">>,
     <<"f","e","w">>, <<"m","o","s","t">>, <<"m","o","r","e">>, <<"l","e","s","s">>,
     <<"m","u","c","h">>, <<"l","i","t","t","l","e">>, <<"v","e","r","y">>, <<"t","o","o">>,
     <<"a","l","s","o">>, <<"o","n","l","y">>, <<"j","u","s","t">>, <<"e","v","e","n">>,
     <<"s","t","i","l","l">>, <<"a","g","a","i","n">>, <<"h","e","r","e">>,
     <<"t","h","e","r","e">>, <<"n","o","w">>, <<"t","h","e","n">>, <<"t","o","d","a","y">>,
     <<"y","e","s","t","e","r","d","a","y">>, <<"t","o","m","o","r","r","o","w">>,
     <<"o","n","e">>, <<"t","w","o">>, <<"t","h","r","e","e">>, <<"f","i","r","s","t">>,
     <<"s","e","c","o","n","d">>, <<"t","h","i","r","d">>, <<"l","a","s","t">>,
     <<"n","e","x","t">>}

\* \b at the gap before position i
JsWordBoundary(s, i) ==
    LET before == i > 1 /\ JsIsWordChar(s[i - 1])
        after  == i <= Len(s) /\ JsIsWordChar(s[i])
    IN  before # after

\* where a match of \b[a-z]+\b that starts at i may end
JsMatchEnds(s, i) ==
    IF s[i] \in AsciiLower /\ JsWordBoundary(s, i)
    THEN {k \in i..LetterRunEnd(s, i) : JsWordBoundary(s, k + 1)}
    ELSE {}

\* combinedText.match(/\b[a-z]+\b/g) || []
RECURSIVE JsMatchWords(_, _)
JsMatchWords(s, i) ==
    LET starts == {k \in i..Len(s) : JsMatchEnds(s, k) # {}}
    IN  IF starts = {} THEN <<>>
        ELSE LET k == CHOOSE x \in starts : \A y \in starts : x <= y
                 j == CHOOSE x \in JsMatchEnds(s, k) : \A y \in JsMatchEnds(s, k) : y <= x
             IN  <<SubSeq(s, k, j)>> \o JsMatchWords(s, j + 1)

\* word.length >= minLength && !stopWords.has(word)
JsSurvives(word, minLength) == Len(word) >= minLength /\ word \notin stopWords

\* for (let start = 0; start <= word.length - fragLen; start++)
RECURSIVE JsFragmentsAt(_, _, _)
JsFragmentsAt(word, fragLen, start) ==
    IF start > Len(word) - fragLen THEN <<>>
    ELSE LET fragment == SubSeq(word, start + 1, start + fragLen)
         IN  (IF fragment \notin stopWords THEN <<fragment>> ELSE <<>>)
                 \o JsFragmentsAt(word, fragLen, start + 1)

\* for (let fragLen = minLength; fragLen < Math.min(word.length + 1, 8); fragLen++)
RECURSIVE JsFragmentsOfLengths(_, _, _)
JsFragmentsOfLengths(word, fragLen, stop) ==
    IF fragLen >= stop THEN <<>>
    ELSE JsFragmentsAt(word, fragLen, 0) \o JsFragmentsOfLengths(word, fragLen + 1, stop)

RECURSIVE JsFragments(_, _)
JsFragments(words, minLength) ==
    IF words = <<>> THEN <<>>
    ELSE JsFragmentsOfLengths(Head(words), minLength, Min(Len(Head(words)) + 1, 8))
             \o JsFragments(Tail(words), minLength)

\* for (const [fragment, count] of Object.entries(fragmentCounts)):
\*     if (count >= 5) allCounts[fragment] = (allCounts[fragment] || 0) + count
RECURSIVE JsAddFragments(_, _, _)
JsAddFragments(fc, k, counts) ==
    IF k > Len(fc) THEN counts
    ELSE IF fc[k][2] >= 5
         THEN JsAddFragments(fc, k + 1,
                             DictSet(counts, fc[k][1], DictGet(counts, fc[k][1]) + fc[k][2]))
         ELSE JsAddFragments(fc, k + 1, counts)

\* the objects hold own keys only (the words are a-z runs, never integer-like,
\* so Object.entries lists them in insertion order); Array.prototype.sort is
\* stable
analyzeCommonWords(txts, minLength, topN) ==
    IF txts = <<>> THEN <<>>
    ELSE LET words == SelectSeq(JsMatchWords(toLowerCase(join(txts)), 1),
                                LAMBDA word : JsSurvives(word, minLength))
             wordCounts == Tally(words)
             fragmentCounts == Tally(JsFragments(words, minLength))
             allCounts == JsAddFragments(fragmentCounts, 1,
                              SubSeq([i \in 1..Len(wordCounts) |->
                                         <<wordCounts[i][1], wordCounts[i][2] * 2>>],
                                     1, Len(wordCounts)))
         IN  Keys(Slice(SortByCount(allCounts), topN))

\* tokenLower.replace(/[^\w]/g, '')
JsCleanToken(token) == SelectSeq(toLowerCase(token), JsIsWordChar)

\* commonWord.includes(cleanToken) || cleanToken.includes(commonWord)
JsIsHighlighted(token, commonWords) ==
    LET cleanToken == JsCleanToken(token)
    IN  /\ cleanToken # <<>>
        /\ \E k \in 1..Len(commonWords) :
               \/ IsSubstring(cleanToken, commonWords[k])
               \/ IsSubstring(commonWords[k], cleanToken)

highlightPattern(toks, isRightPanel, cluster_texts) ==
    IF cluster_texts = <<>> \/ ~isRightPanel
    THEN [i \in 1..Len(toks) |-> Low]
    ELSE LET commonWords == analyzeCommonWords(cluster_texts, 3, 2)
         IN  [i \in 1..Len(toks) |->
                 IF JsIsHighlighted(toks[i], commonWords) THEN High ELSE Low]

\* generateClusterHTML: the css class of an activation (in tenths)
cssClass(activation) ==
    IF activation > 7 THEN "activation-high"
    ELSE IF activation > 3 THEN "activation-medium"
    ELSE "activation-low"

\* the script's functions called on the input
tokenizeTextCall(i) ==
    /\ pc = "build"
    /\ pc' = "returned"
    /\ call' = [NoCall EXCEPT !.op = "tokenizeText", !.text = texts[i]]
    /\ tokens' = JsMatchRuns(texts[i], 1)
    /\ ret' = tokenizeText(texts[i])
    /\ UNCHANGED <<texts, built, common_words, analysis, render>>

analyzeCommonWordsCall(minLength, topN) ==
    /\ pc = "build"
    /\ pc' = "returned"
    /\ call' = [NoCall EXCEPT !.op = "analyzeCommonWords", !.cluster_texts = texts,
                              !.min_length = minLength, !.top_n = topN]
    /\ ret' = analyzeCommonWords(texts, minLength, topN)
    /\ UNCHANGED <<texts, built, tokens, common_words, analysis, render>>

highlightPatternCall(i, cluster_texts, isRightPanel) ==
    /\ pc = "build"
    /\ pc' = "returned"
    /\ call' = [NoCall EXCEPT !.op = "highlightPattern", !.text = texts[i],
                              !.cluster_texts = cluster_texts,
                              !.is_right_panel = isRightPanel]
    /\ tokens' = tokenizeText(texts[i])
    /\ common_words' = IF cluster_texts = <<>> \/ ~isRightPanel THEN <<>>
                       ELSE analyzeCommonWords(cluster_texts, 3, 2)
    /\ ret' = highlightPattern(tokenizeText(texts[i]), isRightPanel, cluster_texts)
    /\ UNCHANGED <<texts, built, analysis, render>>

JsTokenize == \E i \in 1..Len(texts) : tokenizeTextCall(i)

JsAnalyze == \E minLength \in MinLengths, topN \in TopNs : analyzeCommonWordsCall(minLength, topN)

JsHighlight ==
    \E i \in 1..Len(texts), c \in ClusterChoices, e \in BOOLEAN :
        highlightPatternCall(i, c, e)

(***************************************************************************)
(* The series files: results/<model>/<neuron>_<model>_ckpt_series.jsonl,   *)
(* one JSON record per line.                                               *)
(***************************************************************************)
MaxLayer == 1

MaxNeuronIndex == 1

\* the step of the final checkpoint
FinalStep == 143000

\* the stride of the neuron input
NeuronStride == 20

\* the sizes of the colour palettes (clusterColors, cluster_colors)
ExportPaletteSize == 8

DashboardPaletteSize == 10

\* the examples a dashboard cluster shows
MaxShown == 5

Layers == 0..MaxLayer

NeuronValues == {k * NeuronStride : k \in 0..MaxNeuronIndex}

\* neuron_id "L<layer>N<neuron>"
NeuronId(l, n) == <<l, n>>

\* a line that json.loads rejects
BadLine == [checkpoint_step |-> -1, text_examples |-> <<>>, cluster_labels |-> <<>>,
            json |-> FALSE]

CheckpointRecord(step, examples, labels) ==
    [checkpoint_step |-> step, text_examples |-> examples, cluster_labels |-> labels,
     json |-> TRUE]

WordDog == <<"d","o","g">>

Step1 == CheckpointRecord(133000, RecordCatSat \o RecordCatDog, <<1, 0, 1>>)

Step2 == CheckpointRecord(138000, RecordCats, <<0, 0>>)

Step3 == CheckpointRecord(FinalStep, RecordCatSat \o RecordCatDog \o RecordDogs,
                          <<11, -1, 1, 11, -1>>)

\* nine clusters, seven examples in one of them, more labels than examples
StepMany ==
    CheckpointRecord(138000,
        SubSeq([i \in 1..15 |-> IF i % 2 = 0 THEN WordDog ELSE <<"C","a","t">> \o WordDog],
               1, 15),
        <<8, 7, 6, 5, 4, 3, 2, 1, 0, 0, 0, 0, 0, 0, 0, 3>>)

SeriesFull == <<Step1, Step2, Step3>>

\* no record of step 138000
SeriesGap == <<Step1, Step3>>

\* no record of the final step
SeriesEarly == <<Step1, StepMany>>

SeriesBad == <<Step1, BadLine, Step3>>

SeriesFile(dir, model, id, lines) ==
    [dir |-> dir, model |-> model, neuron_id |-> id, lines |-> lines]

File70(id, lines) == SeriesFile("results/pythia70m", "pythia70m", id, lines)

File160(id, lines) == SeriesFile("results/pythia160m", "pythia160m", id, lines)

\* the disks a renderer may find
Disks ==
    { {},
      {File160(NeuronId(0, 0), SeriesFull)},
      {File70(NeuronId(0, 0), SeriesFull), File70(NeuronId(0, 20), SeriesGap),
       File70(NeuronId(1, 0), SeriesEarly), File160(NeuronId(1, 20), SeriesGap)},
      {File70(NeuronId(0, 0), SeriesFull), File70(NeuronId(0, 20), SeriesBad),
       File70(NeuronId(1, 20), SeriesEarly)},
      {File70(NeuronId(0, 0), SeriesBad), File70(NeuronId(0, 20), SeriesFull)},
      {File70(NeuronId(0, 0), <<>>), File70(NeuronId(0, 20), SeriesFull)},
      {File70(NeuronId(0, 20), SeriesGap), File70(NeuronId(1, 0), SeriesFull),
       SeriesFile("results", "pythia70m", NeuronId(1, 20), SeriesEarly),
       SeriesFile("results", "pythia70m", NeuronId(1, 0), SeriesGap)},
      {File70(NeuronId(0, 0), SeriesEarly), File160(NeuronId(0, 0), SeriesBad),
       File160(NeuronId(0, 20), SeriesFull)} }

\* a list of neuron ids in the order of (layer, neuron), stable
SortNeurons(ids) ==
    LET Before(a, b) == a[1] < b[1] \/ (a[1] = b[1] /\ a[2] < b[2])
        Rank(i) == Cardinality({j \in 1..Len(ids) :
                                   Before(ids[j], ids[i]) \/ (j < i /\ ids[j] = ids[i])})
    IN  SubSeq([k \in 1..Len(ids) |-> ids[CHOOSE i \in 1..Len(ids) : Rank(i) = k - 1]],
               1, Len(ids))

\* the ids of a set of files as a list (os.listdir gives any order; every use
\* sorts the list)
RECURSIVE ListIds(_)
ListIds(files) ==
    IF files = {} THEN <<>>
    ELSE LET f == CHOOSE x \in files : TRUE
         IN  <<f.neuron_id>> \o ListIds(files \ {f})

FilesIn(d, dir, model) == {f \in d : f.dir = dir /\ f.model = model}

\* get_available_neurons: both directories are listed, the list is sorted
get_available_neurons(d, model) ==
    SortNeurons(ListIds(FilesIn(d, "results", model))
                    \o ListIds(FilesIn(d, "results/" \o model, model)))

\* the file load_checkpoint_data opens, as a set: results/<model>/ first, then
\* results/
FileFor(d, id, model) ==
    LET inModel == {f \in FilesIn(d, "results/" \o model, model) : f.neuron_id = id}
    IN  IF inModel # {} THEN inModel
        ELSE {f \in FilesIn(d, "results", model) : f.neuron_id = id}

Parses(lines) == \A k \in 1..Len(lines) : lines[k].json

\* load_checkpoint_data: [raised |-> json.loads raised, data |-> the list returned]
load_checkpoint_data(d, id, model) ==
    LET found == FileFor(d, id, model)
    IN  IF found = {} THEN [raised |-> FALSE, data |-> <<>>]
        ELSE LET f == CHOOSE x \in found : TRUE
             IN  IF Parses(f.lines) THEN [raised |-> FALSE, data |-> f.lines]
                 ELSE [raised |-> TRUE, data |-> <<>>]

\* all_neuron_data after the loading loop over ids: a neuron with data becomes a
\* key where it is first met
RECURSIVE LoadAll(_, _, _)
LoadAll(d, ids, model) ==
    IF ids = <<>> THEN <<>>
    ELSE LET data == load_checkpoint_data(d, Head(ids), model).data
             rest == SelectSeq(LoadAll(d, Tail(ids), model),
                               LAMBDA pair : pair[1] # Head(ids))
         IN  IF data # <<>> THEN <<<<Head(ids), data>>>> \o rest ELSE rest

HasNeuron(dict, id) == \E k \in 1..Len(dict) : dict[k][1] = id

\* neuronData[id], for an id that is a key
SeriesOf(dict, id) == dict[CHOOSE k \in 1..Len(dict) : dict[k][1] = id][2]

\* [checkpoint['checkpoint_step'] for checkpoint in data]
RECURSIVE StepsOf(_)
StepsOf(data) ==
    IF data = <<>> THEN <<>> ELSE <<Head(data).checkpoint_step>> \o StepsOf(Tail(data))

(***************************************************************************)
(* Rendering a record: the examples grouped by cluster label.              *)
(***************************************************************************)
\* the labels met, in the order of their first examples, among the first n
FirstSeen(labels, n) ==
    LET first == SelectSeq([i \in 1..n |-> i],
                           LAMBDA i : \A j \in 1..(i - 1) : labels[j] # labels[i])
    IN  SubSeq([m \in 1..Len(first) |-> labels[first[m]]], 1, Len(first))

\* the examples put at the front of clusters[label]: the order turned round
ExamplesPrepended(label, labels, examples, n) ==
    LET at == SelectSeq([i \in 1..n |-> i], LAMBDA i : labels[i] = label)
    IN  SubSeq([m \in 1..Len(at) |-> examples[at[Len(at) + 1 - m]]], 1, Len(at))

\* the examples appended to clusters[label], in order
ExamplesOf(label, labels, examples, n) ==
    LET at == SelectSeq([i \in 1..n |-> i], LAMBDA i : labels[i] = label)
    IN  SubSeq([m \in 1..Len(at) |-> examples[at[m]]], 1, Len(at))

\* the clusters dict of display_cluster_data: zip(cluster_labels, text_examples)
\* stops at the shorter list
GroupByLabel(record) ==
    LET n == Min(Len(record.cluster_labels), Len(record.text_examples))
        keys == FirstSeen(record.cluster_labels, n)
    IN  SubSeq([k \in 1..Len(keys) |->
                   <<keys[k], ExamplesOf(keys[k], record.cluster_labels,
                                         record.text_examples, n)>>],
               1, Len(keys))

\* the clusters object of generateClusterHTML: text_examples.forEach takes the
\* label at each example's index (the records here have a label for each)
JsGroupByLabel(record) ==
    LET n == Len(record.text_examples)
        keys == FirstSeen(record.cluster_labels, n)
    IN  SubSeq([k \in 1..Len(keys) |->
                   <<keys[k], ExamplesOf(keys[k], record.cluster_labels,
                                         record.text_examples, n)>>],
               1, Len(keys))

\* the groups as they were first seen: the ordering without the sort
UnsortedClusters(groups) == groups

\* sorted(clusters.keys()) / Object.entries(clusters).sort(by parseInt of the key):
\* the groups in ascending order of their labels (the keys are distinct)
SortClusters(groups) ==
    LET Rank(i) == Cardinality({j \in 1..Len(groups) : groups[j][1] < groups[i][1]})
    IN  SubSeq([k \in 1..Len(groups) |->
                   groups[CHOOSE i \in 1..Len(groups) : Rank(i) = k - 1]],
               1, Len(groups))

\* a rendered cluster
ClusterBox(cluster_id, color, examples, shown, more) ==
    [cluster_id |-> cluster_id, color |-> color, texts |-> examples,
     examples |-> shown, more |-> more]

\* one cluster of the dashboard: the colour follows the label, the first
\* examples are shown, each highlighted against all examples of the cluster
DashboardBox(cluster_id, examples, is_right_panel) ==
    ClusterBox(cluster_id,
               cluster_id % DashboardPaletteSize,
               examples,
               SubSeq([e \in 1..Min(MaxShown, Len(examples)) |->
                          highlight_tokens(examples[e], examples, is_right_panel)],
                      1, Min(MaxShown, Len(examples))),
               IF Len(examples) > MaxShown THEN Len(examples) - MaxShown ELSE 0)

\* for cluster_id in sorted(clusters.keys())
DashboardBoxes(sorted, is_right_panel) ==
    SubSeq([k \in 1..Len(sorted) |->
               DashboardBox(sorted[k][1], sorted[k][2], is_right_panel)],
           1, Len(sorted))

\* display_cluster_data for a record with both fields
display_cluster_data(record, is_right_panel) ==
    ClustersContent(DashboardBoxes(SortClusters(GroupByLabel(record)), is_right_panel))

\* the spans of the tokens with their activations
Spans(toks, activations) ==
    SubSeq([i \in 1..Len(toks) |-> SpanNode(cssClass(activations[i]), toks[i])],
           1, Len(toks))

\* the spans of one example of the export
JsExample(text, cluster_texts, isRightPanel) ==
    Spans(tokenizeText(text),
          highlightPattern(tokenizeText(text), isRightPanel, cluster_texts))

\* one cluster of the export: the colour follows the position, every example is
\* shown
JsBox(cluster_id, index, cluster_texts, isRightPanel) ==
    ClusterBox(cluster_id,
               index % ExportPaletteSize,
               cluster_texts,
               SubSeq([e \in 1..Len(cluster_texts) |->
                          JsExample(cluster_texts[e], cluster_texts, isRightPanel)],
                      1, Len(cluster_texts)),
               0)

\* sortedClusters.forEach(([clusterId, texts], index) => ...)
JsBoxes(sortedClusters, isRightPanel) ==
    SubSeq([k \in 1..Len(sortedClusters) |->
               JsBox(sortedClusters[k][1], k - 1, sortedClusters[k][2], isRightPanel)],
           1, Len(sortedClusters))

generateClusterHTML(record, isRightPanel) ==
    ClustersContent(JsBoxes(SortClusters(JsGroupByLabel(record)), isRightPanel))

\* data.find(d => d.checkpoint_step === step) / next((d for d in data if ...), None)
FindStep(data, step) ==
    LET at == {k \in 1..Len(data) : data[k].checkpoint_step = step}
    IN  IF at = {} THEN <<>>
        ELSE <<data[CHOOSE k \in at : \A j \in at : k <= j]>>

\* the panel pinned to the first record of the series
FirstRecord(data) == IF data = <<>> THEN <<>> ELSE <<data[1]>>

\* a || b for the found record a
OrElse(found, fallback) == IF found # <<>> THEN found ELSE fallback

\* data.find(d => d.checkpoint_step === 143000) || data[data.length - 1]
\* next((d ... == 143000), data[-1] if data else None)
FinalRecord(data) ==
    OrElse(FindStep(data, FinalStep), IF data = <<>> THEN <<>> ELSE <<data[Len(data)]>>)

(***************************************************************************)
(* The static export: create_interactive_visualization, then the page.     *)
(***************************************************************************)
Message(text, id) == [text |-> text, neuron_id |-> id]

NotRendered == [kind |-> "none", message |-> "", clusters |-> <<>>]

\* create_interactive_visualization, for the default model
ExportRun(d) ==
    /\ program = "none" /\ pc = "build" /\ built = 0
    /\ program' = "export"
    /\ disk' = d
    /\ LET neurons == get_available_neurons(d, "pythia70m")
           sample_data == load_checkpoint_data(d, neurons[1], "pythia70m")
           raises == \E k \in 1..Len(neurons) :
                         load_checkpoint_data(d, neurons[k], "pythia70m").raised
       IN  /\ available_neurons' = neurons
           /\ IF neurons = <<>>
              THEN /\ messages' = {Message("No neuron data found!", <<>>)}
                   /\ status' = "halted"
                   /\ UNCHANGED <<all_neuron_data, checkpoint_steps, html_written>>
              ELSE IF sample_data.raised
              THEN \* json.loads raises in load_checkpoint_data and nothing catches it
                   /\ messages' = {Message("Traceback: JSONDecodeError", neurons[1])}
                   /\ status' = "crashed"
                   /\ UNCHANGED <<all_neuron_data, checkpoint_steps, html_written>>
              ELSE IF sample_data.data = <<>>
              THEN /\ messages' = {Message("Could not load sample data!", <<>>)}
                   /\ status' = "halted"
                   /\ UNCHANGED <<all_neuron_data, checkpoint_steps, html_written>>
              ELSE IF raises
              THEN /\ messages' = {Message("Traceback: JSONDecodeError", <<>>)}
                   /\ status' = "crashed"
                   /\ UNCHANGED <<all_neuron_data, checkpoint_steps, html_written>>
              ELSE /\ messages' = {}
                   /\ all_neuron_data' = LoadAll(d, neurons, "pythia70m")
                   /\ checkpoint_steps' = StepsOf(sample_data.data)
                   /\ html_written' = TRUE
                   /\ status' = "written"
    /\ UNCHANGED <<controls, model_name, layer, neuron, currentNeuron,
                   currentCheckpointStep, currentData, finalData, leftContent,
                   rightContent, calls>>

\* the two panels failing together when the step has no record
JsPanelsJoint(current, final) ==
    [currentData |-> current, finalData |-> final,
     leftContent |->
         IF current # <<>> THEN generateClusterHTML(current[1], FALSE)
         ELSE ErrorContent("No data available for this checkpoint"),
     rightContent |->
         IF current # <<>> /\ final # <<>> THEN generateClusterHTML(final[1], TRUE)
         ELSE ErrorContent("No data available for this checkpoint")]

\* the two panels of the export for the records found
JsPanels(current, final) ==
    [currentData |-> current, finalData |-> final,
     leftContent |->
         IF current # <<>> THEN generateClusterHTML(current[1], FALSE)
         ELSE ErrorContent("No data available for this checkpoint"),
     rightContent |->
         IF final # <<>> THEN generateClusterHTML(final[1], TRUE)
         ELSE ErrorContent("No final data available")]

\* updateVisualization without the check of the neuron
updateVisualizationUnchecked(neuronData, id, step) ==
    IF ~HasNeuron(neuronData, id)
    THEN JsPanels(<<>>, <<>>)
    ELSE JsPanels(FindStep(SeriesOf(neuronData, id), step),
                  FinalRecord(SeriesOf(neuronData, id)))

\* updateVisualization: what it leaves in the two panels
updateVisualization(neuronData, id, step) ==
    IF ~HasNeuron(neuronData, id)
    THEN [currentData |-> <<>>, finalData |-> <<>>,
          leftContent |-> ErrorContent("No data available for this neuron"),
          rightContent |-> ErrorContent("No data available for this neuron")]
    ELSE JsPanels(FindStep(SeriesOf(neuronData, id), step),
                  FinalRecord(SeriesOf(neuronData, id)))

\* the page shows what a handler left
Shown(id, step, shown) ==
    /\ currentNeuron' = id
    /\ currentCheckpointStep' = step
    /\ currentData' = shown.currentData
    /\ finalData' = shown.finalData
    /\ leftContent' = shown.leftContent
    /\ rightContent' = shown.rightContent

\* the page after a handler ran updateVisualization
Show(id, step) == Shown(id, step, updateVisualization(all_neuron_data, id, step))

\* the page is opened: the script runs and DOMContentLoaded fires
PageLoad ==
    /\ program = "export" /\ status = "written"
    /\ status' = "open"
    /\ layer' = 0
    /\ neuron' = 0
    /\ Show(NeuronId(0, 0), checkpoint_steps[1])
    /\ UNCHANGED <<program, disk, messages, html_written, controls, all_neuron_data,
                   available_neurons, checkpoint_steps, model_name, calls>>

\* the 'input' listeners of the layer and the neuron input: updateNeuronFromInputs
LayerInput(value) ==
    /\ program = "export" /\ status = "open"
    /\ layer' = value
    /\ Show(NeuronId(value, neuron), currentCheckpointStep)
    /\ UNCHANGED <<program, disk, status, messages, html_written, controls,
                   all_neuron_data, available_neurons, checkpoint_steps, model_name,
                   neuron, calls>>

NeuronInput(value) ==
    /\ program = "export" /\ status = "open"
    /\ neuron' = value
    /\ Show(NeuronId(layer, value), currentCheckpointStep)
    /\ UNCHANGED <<program, disk, status, messages, html_written, controls,
                   all_neuron_data, available_neurons, checkpoint_steps, model_name,
                   layer, calls>>

\* the values of the range input: min, min + step, ... up to max
SliderValues(steps) ==
    LET Least == CHOOSE x \in Elements(steps) : \A y \in Elements(steps) : x <= y
        Most == CHOOSE x \in Elements(steps) : \A y \in Elements(steps) : y <= x
        declared == IF Len(steps) > 1 THEN steps[2] - steps[1] ELSE 1000
        stride == IF declared > 0 THEN declared ELSE 1
    IN  IF steps = <<>> THEN {}
        ELSE {Least + k * stride : k \in 0..((Most - Least) \div stride)}

\* the 'input' listener of the checkpoint slider
SliderInput(value) ==
    /\ program = "export" /\ status = "open"
    /\ Show(currentNeuron, value)
    /\ UNCHANGED <<program, disk, status, messages, html_written, controls,
                   all_neuron_data, available_neurons, checkpoint_steps, model_name,
                   layer, neuron, calls>>

Export ==
    \/ \E d \in Disks : ExportRun(d)
    \/ PageLoad
    \/ \E value \in Layers : LayerInput(value)
    \/ \E value \in NeuronValues : NeuronInput(value)
    \/ \E value \in SliderValues(checkpoint_steps) : SliderInput(value)

(***************************************************************************)
(* The dashboard: every widget event runs main() again.                    *)
(***************************************************************************)
ModelNames == {"Pythia-70M", "Pythia-160M"}

\* the model's name in file names
ModelKey(name) == IF name = "Pythia-70M" THEN "pythia70m" ELSE "pythia160m"

\* search_paths
SearchPaths(name) ==
    IF name = "Pythia-70M" THEN <<"results", "results/pythia70m">>
    ELSE <<"results/pythia160m">>

\* the files of the search paths, and those of them that load
Searched(d, name) ==
    {f \in d : f.model = ModelKey(name) /\ f.dir \in Elements(SearchPaths(name))}

Loadable(d, name) == {f \in Searched(d, name) : Parses(f.lines)}

\* the sort without the duplicates
RECURSIVE Distinct(_)
Distinct(ids) ==
    IF ids = <<>> THEN <<>>
    ELSE <<Head(ids)>> \o Distinct(SelectSeq(Tail(ids), LAMBDA id : id # Head(ids)))

\* load_neuron_data: a file whose lines do not all parse is reported and left
\* out; of two files of one neuron the one of the later search path stays
load_neuron_data(d, name) ==
    LET good == Loadable(d, name)
        last == SearchPaths(name)[Len(SearchPaths(name))]
        Kept(id) == IF \E f \in good : f.neuron_id = id /\ f.dir = last
                    THEN CHOOSE f \in good : f.neuron_id = id /\ f.dir = last
                    ELSE CHOOSE f \in good : f.neuron_id = id
        available == SortNeurons(ListIds(good))
        keys == Distinct(available)
    IN  [all_neuron_data |->
             SubSeq([k \in 1..Len(keys) |-> <<keys[k], Kept(keys[k]).lines>>],
                    1, Len(keys)),
         available_neurons |-> available,
         errors |-> {Message("Error loading", f.neuron_id) :
                         f \in Searched(d, name) \ good}]

\* sorted([d['checkpoint_step'] for d in data])
SortSteps(steps) ==
    LET Rank(i) == Cardinality({j \in 1..Len(steps) :
                                   steps[j] < steps[i] \/ (j < i /\ steps[j] = steps[i])})
    IN  SubSeq([k \in 1..Len(steps) |-> steps[CHOOSE i \in 1..Len(steps) : Rank(i) = k - 1]],
               1, Len(steps))

\* the slider's options taken from the first loaded series
OptionsOfFirstSeries(neuronData, data) == SortSteps(StepsOf(neuronData[1][2]))

\* the options of the checkpoint slider
SliderOptions(neuronData, data) == SortSteps(StepsOf(data))

\* a run of main() that stops before the panels
Stopped(loaded, reached, made, message) ==
    [status |-> reached, controls |-> made,
     messages |-> loaded.errors \cup {message},
     all_neuron_data |-> loaded.all_neuron_data,
     available_neurons |-> loaded.available_neurons,
     checkpoint_steps |-> <<>>, checkpoint |-> 0,
     currentData |-> <<>>, finalData |-> <<>>,
     leftContent |-> NotRendered, rightContent |-> NotRendered]

\* the two columns of main() for the records found
Columns(loaded, options, step, current_data, final_data) ==
    [status |-> "rendered", controls |-> {"model", "layer", "neuron", "checkpoint"},
     messages |-> loaded.errors,
     all_neuron_data |-> loaded.all_neuron_data,
     available_neurons |-> loaded.available_neurons,
     checkpoint_steps |-> options, checkpoint |-> step,
     currentData |-> current_data, finalData |-> final_data,
     leftContent |->
         IF current_data # <<>> THEN display_cluster_data(current_data[1], FALSE)
         ELSE ErrorContent("No data available for this checkpoint"),
     rightContent |->
         IF final_data # <<>> THEN display_cluster_data(final_data[1], TRUE)
         ELSE ErrorContent("No final data available")]

\* main() from the checkpoint slider on, for the series of the neuron
Panels(loaded, id, data, options, step) ==
    IF options = <<>>
    THEN \* select_slider raises on empty options: the run stops
         Stopped(loaded, "exception", {"model", "layer", "neuron"},
                 Message("StreamlitAPIException", id))
    ELSE Columns(loaded, options, step, FindStep(data, step), FinalRecord(data))

\* main() after the data has been loaded
Selected(loaded, id, step) ==
    IF loaded.available_neurons = <<>>
    THEN Stopped(loaded, "halted", {"model"}, Message("No neuron data found", <<>>))
    ELSE IF ~HasNeuron(loaded.all_neuron_data, id)
    THEN Stopped(loaded, "no_data", {"model", "layer", "neuron"},
                 Message("No data available for", id))
    ELSE Panels(loaded, id, SeriesOf(loaded.all_neuron_data, id),
                SliderOptions(loaded.all_neuron_data, SeriesOf(loaded.all_neuron_data, id)),
                step)

\* one run of main() with the widgets at (name, l, n) and the slider, if it is
\* created, returning step
main(d, name, l, n, step) == Selected(load_neuron_data(d, name), NeuronId(l, n), step)

\* the options of the slider for the loaded data
OptionsFor(loaded, id) ==
    IF HasNeuron(loaded.all_neuron_data, id)
    THEN Elements(SliderOptions(loaded.all_neuron_data, SeriesOf(loaded.all_neuron_data, id)))
    ELSE {}

\* the steps the slider may return in a run at (name, l, n): one of its options
\* (0 stands for no slider)
Selectable(d, name, l, n) ==
    OptionsFor(load_neuron_data(d, name), NeuronId(l, n))
        \cup (IF OptionsFor(load_neuron_data(d, name), NeuronId(l, n)) = {} THEN {0} ELSE {})

\* the page after a run of main()
Ran(name, l, n, run) ==
    /\ model_name' = name
    /\ layer' = l
    /\ neuron' = n
    /\ currentNeuron' = NeuronId(l, n)
    /\ status' = run.status
    /\ controls' = run.controls
    /\ messages' = run.messages
    /\ all_neuron_data' = run.all_neuron_data
    /\ available_neurons' = run.available_neurons
    /\ checkpoint_steps' = run.checkpoint_steps
    /\ currentCheckpointStep' = run.checkpoint
    /\ currentData' = run.currentData
    /\ finalData' = run.finalData
    /\ leftContent' = run.leftContent
    /\ rightContent' = run.rightContent

Rerun(d, name, l, n, step) == Ran(name, l, n, main(d, name, l, n, step))

\* the dashboard is opened: the widgets have their defaults
DashboardOpen(d) ==
    /\ program = "none" /\ pc = "build" /\ built = 0
    /\ program' = "dashboard"
    /\ disk' = d
    /\ \E step \in Selectable(d, "Pythia-70M", 0, 0) :
           /\ \A other \in Selectable(d, "Pythia-70M", 0, 0) : step <= other
           /\ Rerun(d, "Pythia-70M", 0, 0, step)
    /\ UNCHANGED <<html_written, calls>>

\* the model selector changes; the other widgets are made anew or keep their
\* values
SelectModel(name) ==
    /\ program = "dashboard" /\ "model" \in controls
    /\ \E l \in {0, layer}, n \in {0, neuron} :
           \E step \in Selectable(disk, name, l, n) : Rerun(disk, name, l, n, step)
    /\ UNCHANGED <<program, disk, html_written, calls>>

SetLayer(value) ==
    /\ program = "dashboard" /\ "layer" \in controls
    /\ \E step \in Selectable(disk, model_name, value, neuron) :
           Rerun(disk, model_name, value, neuron, step)
    /\ UNCHANGED <<program, disk, html_written, calls>>

SetNeuron(value) ==
    /\ program = "dashboard" /\ "neuron" \in controls
    /\ \E step \in Selectable(disk, model_name, layer, value) :
           Rerun(disk, model_name, layer, value, step)
    /\ UNCHANGED <<program, disk, html_written, calls>>

\* the checkpoint slider moves to another of its options
SetCheckpoint(step) ==
    /\ program = "dashboard" /\ "checkpoint" \in controls
    /\ step \in Elements(checkpoint_steps)
    /\ Rerun(disk, model_name, layer, neuron, step)
    /\ UNCHANGED <<program, disk, html_written, calls>>

Dashboard ==
    \/ \E d \in Disks : DashboardOpen(d)
    \/ \E name \in ModelNames : SelectModel(name)
    \/ \E value \in Layers : SetLayer(value)
    \/ \E value \in NeuronValues : SetNeuron(value)
    \/ \E step \in Elements(checkpoint_steps) : SetCheckpoint(step)
Next ==
    \/ Build \/ Tokenize \/ Analyze \/ HighlightPattern \/ HighlightTokens
    \/ JsTokenize \/ JsAnalyze \/ JsHighlight
    \/ Export \/ Dashboard

Spec == Init /\ [][Next]_vars

\* one specification per component
SpecTokenizer == Init /\ [][Build \/ Tokenize]_vars

SpecTerms == Init /\ [][Build \/ Analyze]_vars

SpecHighlight == Init /\ [][Build \/ HighlightPattern \/ HighlightTokens]_vars

SpecClient == Init /\ [][Build \/ JsTokenize \/ JsAnalyze \/ JsHighlight]_vars

\* the two renderers
SpecRender == Init /\ [][Export \/ Dashboard]_vars

(***************************************************************************)
(* Properties                                                              *)
(***************************************************************************)
Returned(op) == pc = "returned" /\ call.op = op

WordCat == <<"c","a","t">>

WordThe == <<"t","h","e">>

WordA == <<"a">>

\* C1: a highlighter that is given no cluster texts, or is not on the right
\* panel, returns one low activation per token (static export) and emits no
\* activation-high span (dashboard), whatever the tokens are.
C1_SuppressedHighlightIsAllLow ==
    /\ (Returned("highlight_pattern")
            /\ (call.cluster_texts = <<>> \/ ~call.is_right_panel))
          => /\ Len(ret) = Len(tokens)
             /\ \A i \in 1..Len(ret) : ret[i] = Low
    /\ (Returned("highlight_tokens")
            /\ (call.cluster_texts = <<>> \/ ~call.is_right_panel))
          => \A i \in 1..Len(ret) : ret[i].class # "activation-high"

\* a left-panel call whose tokens would be highlighted on the right panel
C1_Witness ==
    /\ Returned("highlight_pattern")
    /\ ~call.is_right_panel
    /\ call.cluster_texts # <<>>
    /\ \E i \in 1..Len(tokens) : IsHighlighted(tokens[i], CommonWords(call.cluster_texts))

\* the record of C2 and C3 rendered with emphasis: one of its examples is
\* highlighted against both examples
CatSatHighlighted ==
    /\ Returned("highlight_pattern")
    /\ call.cluster_texts = RecordCatSat
    /\ call.is_right_panel
    /\ call.text \in Elements(RecordCatSat)

\* C2 as stated: in the record ["the cat sat", "a cat ran"] rendered with
\* emphasis, the tokens "the" and "a" are marked low.
C2_TheAndALow ==
    CatSatHighlighted =>
        \A i \in 1..Len(tokens) : tokens[i] \in {WordThe, WordA} => ret[i] = Low

\* C2 amended: in that record the token "the" is marked low and the token "a"
\* is marked high ("a" is a substring of the common term "cat").
C2_TheLowAHigh ==
    CatSatHighlighted =>
        \A i \in 1..Len(tokens) :
            /\ tokens[i] = WordThe => ret[i] = Low
            /\ tokens[i] = WordA => ret[i] = High

C2_Witness ==
    /\ CatSatHighlighted
    /\ call.text = RecordCatSat[2]
    /\ tokens[1] = WordA
    /\ ret[1] = High

\* C3: for that record the common terms of the cluster (defaults 3 and 2)
\* include "cat", and the token "cat" is marked high in both examples.
C3_CatIsCommonAndHigh ==
    CatSatHighlighted =>
        /\ WordCat \in Elements(common_words)
        /\ \E i \in 1..Len(tokens) : tokens[i] = WordCat
        /\ \A i \in 1..Len(tokens) : tokens[i] = WordCat => ret[i] = High

C3_Witness ==
    /\ CatSatHighlighted
    /\ call.text = RecordCatSat[1]
    /\ tokens[2] = WordCat
    /\ ret[2] = High

\* a highlighter call that reaches the per-token loop
Emphasized(op) == Returned(op) /\ call.is_right_panel /\ call.cluster_texts # <<>>

\* the rule of C4 for one token, with the clean token given
Overlaps(clean, terms) ==
    /\ clean # <<>>
    /\ \E t \in Elements(terms) : IsSubstring(t, clean) \/ IsSubstring(clean, t)

\* the token with every non-word character removed
Stripped(token) == SelectSeq(token, IsWordChar)

\* how a highlighter marked its i-th token
MarkedHigh(i) ==
    IF call.op = "highlight_pattern" THEN ret[i] = High
    ELSE ret[i].class = "activation-high"

\* C4 as stated: with emphasis and cluster texts, a token is marked high iff
\* the token stripped of its non-word characters is non-empty and some common
\* term contains it or is contained in it.
C4_HighIffStrippedOverlaps ==
    (Emphasized("highlight_pattern") \/ Emphasized("highlight_tokens")) =>
        /\ Len(ret) = Len(tokens)
        /\ \A i \in 1..Len(tokens) :
               MarkedHigh(i) <=> Overlaps(Stripped(tokens[i]), common_words)

\* C4 amended: ... iff the lower-cased token stripped of its non-word
\* characters is non-empty and some common term contains it or is contained
\* in it.
C4_HighIffLoweredStrippedOverlaps ==
    (Emphasized("highlight_pattern") \/ Emphasized("highlight_tokens")) =>
        /\ Len(ret) = Len(tokens)
        /\ \A i \in 1..Len(tokens) :
               MarkedHigh(i) <=> Overlaps(Stripped(lower(tokens[i])), common_words)

\* a token that is high only through lower-casing, beside a low one
C4_Witness ==
    /\ Emphasized("highlight_pattern")
    /\ \E i \in 1..Len(tokens) :
           ret[i] = High /\ ~Overlaps(Stripped(tokens[i]), common_words)
    /\ \E i \in 1..Len(tokens) : ret[i] = Low

\* the words analyze_common_words counted in the returned call
CalledWords == SurvivingWords(CandidateWords(call.cluster_texts), call.min_length)

\* how often t is one of the words ws
Occurrences(t, ws) == Cardinality({i \in 1..Len(ws) : ws[i] = t})

\* how often t occurs inside the words ws as a fragment that is counted
FragmentOccurrences(t, ws, min_length) ==
    IF Len(t) < min_length \/ Len(t) > MaxFragmentLen \/ t \in stop_words THEN 0
    ELSE Cardinality({p \in (1..Len(ws)) \X (1..Len(join(ws)) + 1) :
                          /\ p[2] + Len(t) - 1 <= Len(ws[p[1]])
                          /\ SubSeq(ws[p[1]], p[2], p[2] + Len(t) - 1) = t})

\* the score of C5
Score(t, ws, min_length) ==
    LET f == FragmentOccurrences(t, ws, min_length)
    IN  WholeWordWeight * Occurrences(t, ws) + (IF f >= FragmentThreshold THEN f ELSE 0)

\* every contiguous substring of a word of ws
Substrings(ws) ==
    UNION {{SubSeq(ws[i], a, b) : a \in 1..b} : <<i, b>> \in
               {q \in (1..Len(ws)) \X (1..Len(join(ws)) + 1) : q[2] <= Len(ws[q[1]])}}

\* C5: the result has at most top_n distinct terms in non-increasing order of
\* score; it is the first top_n entries of the merged score map, whose score
\* of t is 2 * word_counts[t] plus fragment_counts[t] when that is at least 5,
\* and fragment_counts counts every occurrence, in a surviving word, of a
\* substring of length min_length..min(word length, 7) that is no stop word.
C5_TopTermsByScore ==
    Returned("analyze_common_words") =>
        LET ws == CalledWords
            ml == call.min_length
            scored == {t \in Substrings(ws) : Score(t, ws, ml) > 0}
            counted == {t \in Substrings(ws) : FragmentOccurrences(t, ws, ml) > 0}
        IN  /\ Len(ret) = Min(call.top_n, Cardinality(scored))
            /\ \A i, j \in 1..Len(ret) : i < j =>
                   /\ ret[i] # ret[j]
                   /\ Score(ret[i], ws, ml) >= Score(ret[j], ws, ml)
            /\ \A i \in 1..Len(ret) : ret[i] \in scored
            /\ \A t \in scored \ Elements(ret) :
                   \A i \in 1..Len(ret) : Score(ret[i], ws, ml) >= Score(t, ws, ml)
            /\ {all_counts[i][1] : i \in 1..Len(all_counts)} = scored
            /\ \A i \in 1..Len(all_counts) :
                   all_counts[i][2] = Score(all_counts[i][1], ws, ml)
            /\ {fragment_counts[i][1] : i \in 1..Len(fragment_counts)} = counted
            /\ \A i \in 1..Len(fragment_counts) :
                   fragment_counts[i][2] =
                       FragmentOccurrences(fragment_counts[i][1], ws, ml)

\* a frequent fragment that is also a whole word, and a cut that drops terms
C5_Witness ==
    /\ Returned("analyze_common_words")
    /\ \E k \in 1..Len(fragment_counts) :
           /\ fragment_counts[k][2] >= FragmentThreshold
           /\ HasKey(word_counts, fragment_counts[k][1])
    /\ call.top_n > 0
    /\ Len(ret) = call.top_n
    /\ Len(all_counts) > call.top_n

\* the text the words are taken from
CalledText == lower(join(call.cluster_texts))

\* the maximal runs of characters of s that satisfy In, as <<first, last>>
MaximalRuns(s, In(_)) ==
    {r \in (1..Len(s)) \X (1..Len(s)) :
        /\ r[1] <= r[2]
        /\ \A k \in r[1]..r[2] : In(s[k])
        /\ r[1] = 1 \/ ~In(s[r[1] - 1])
        /\ r[2] = Len(s) \/ ~In(s[r[2] + 1])}

IsAsciiLower(c) == c \in AsciiLower

\* the maximal runs of a-z
LetterRuns(s) == MaximalRuns(s, IsAsciiLower)

\* those with no word character (letter, digit, underscore) next to them
DelimitedRuns(s) ==
    {r \in LetterRuns(s) :
        /\ r[1] = 1 \/ ~IsWordChar(s[r[1] - 1])
        /\ r[2] = Len(s) \/ ~IsWordChar(s[r[2] + 1])}

\* word_counts counts exactly the runs R of s that are long enough and no stop
\* words, once per occurrence
WordCountsCount(R, s) ==
    /\ \A r \in R :
           LET w == SubSeq(s, r[1], r[2])
           IN  (Len(w) >= call.min_length /\ w \notin stop_words) =>
                   DictGet(word_counts, w) =
                       Cardinality({q \in R : SubSeq(s, q[1], q[2]) = w})
    /\ \A i \in 1..Len(word_counts) :
           /\ word_counts[i][2] > 0
           /\ Len(word_counts[i][1]) >= call.min_length
           /\ word_counts[i][1] \notin stop_words
           /\ \E r \in R : SubSeq(s, r[1], r[2]) = word_counts[i][1]
    /\ \A i, j \in 1..Len(word_counts) : i # j => word_counts[i][1] # word_counts[j][1]

\* C6 as stated: the words counted are exactly the maximal runs of a-z of the
\* lower-cased, space-joined texts that are long enough and no stop words, also
\* the runs next to a digit, an underscore or a non-ASCII letter.
C6_CountsEveryLetterRun ==
    (Returned("analyze_common_words") /\ call.cluster_texts # <<>>) =>
        WordCountsCount(LetterRuns(CalledText), CalledText)

\* C6 amended: the words counted are exactly the maximal runs of a-z that have
\* no letter, digit or underscore directly before or after them (a run next to
\* a digit, an underscore or a non-ASCII letter is not counted), minus the
\* short ones and the stop words.
C6_CountsDelimitedLetterRuns ==
    (Returned("analyze_common_words") /\ call.cluster_texts # <<>>) =>
        WordCountsCount(DelimitedRuns(CalledText), CalledText)

\* a text with a counted run and a run that its neighbour excludes
C6_Witness ==
    /\ Returned("analyze_common_words")
    /\ call.cluster_texts # <<>>
    /\ word_counts # <<>>
    /\ \E r \in LetterRuns(CalledText) \ DelimitedRuns(CalledText) :
           /\ r[2] - r[1] + 1 >= call.min_length
           /\ SubSeq(CalledText, r[1], r[2]) \notin stop_words

\* C7: no returned term is a stop word; the texts ["the the the"] give [].
C7_NoStopWordReturned ==
    Returned("analyze_common_words") =>
        /\ \A i \in 1..Len(ret) : ret[i] \notin stop_words
        /\ call.cluster_texts = RecordThe => ret = <<>>

\* a stop word three times, asked for with a length it has
C7_Witness ==
    /\ Returned("analyze_common_words")
    /\ call.cluster_texts = RecordThe
    /\ call.min_length <= Len(WordThe)
    /\ call.top_n >= 1
    /\ ret = <<>>

\* C8: with min_length 3 and top_n 1, a word that is strictly more frequent
\* than every other counted word is the result when no fragment reaches 5;
\* ["cat cat cat dog"] gives ["cat"], 6 against 2.
C8_DominantWordWins ==
    (Returned("analyze_common_words") /\ call.min_length = 3 /\ call.top_n = 1) =>
        /\ \A i \in 1..Len(word_counts) :
               ( /\ \A j \in 1..Len(word_counts) :
                        j # i => word_counts[j][2] < word_counts[i][2]
                 /\ \A k \in 1..Len(fragment_counts) :
                        fragment_counts[k][2] < FragmentThreshold )
               => ret = <<word_counts[i][1]>>
        /\ call.cluster_texts = RecordCatDog =>
               /\ ret = <<WordCat>>
               /\ all_counts = << <<WordCat, 6>>, <<<<"d","o","g">>, 2>> >>

C8_Witness ==
    /\ Returned("analyze_common_words")
    /\ call.cluster_texts = RecordCatDog
    /\ call.min_length = 3
    /\ call.top_n = 1
    /\ ret = <<WordCat>>

IsNotSpace(c) == ~IsSpace(c)

\* the k-th of the runs R in text order
RunAt(R, k) == CHOOSE r \in R : Cardinality({q \in R : q[1] <= r[1]}) = k

\* C10: the tokens are exactly the maximal runs of non-whitespace characters
\* of the text, in order and unchanged; none is empty or holds whitespace;
\* "a  b" gives ["a", "b"] and "" gives [].
C10_TokensAreNonSpaceRuns ==
    Returned("tokenize_text") =>
        LET R == MaximalRuns(call.text, IsNotSpace)
        IN  /\ Len(ret) = Cardinality(R)
            /\ \A k \in 1..Len(ret) :
                   /\ ret[k] = SubSeq(call.text, RunAt(R, k)[1], RunAt(R, k)[2])
                   /\ ret[k] # <<>>
                   /\ \A c \in Elements(ret[k]) : ~IsSpace(c)
            /\ call.text = <<"a"," "," ","b">> => ret = << <<"a">>, <<"b">> >>
            /\ call.text = <<>> => ret = <<>>

\* tokens with an upper-case letter and punctuation around whitespace runs
C10_Witness ==
    /\ Returned("tokenize_text")
    /\ Len(ret) >= 2
    /\ \E k \in 1..Len(ret) : ret[k] # lower(ret[k])
    /\ \E k \in 1..Len(ret) : \E c \in Elements(ret[k]) : ~IsWordChar(c)
    /\ \E i \in 1..(Len(call.text) - 1) : IsSpace(call.text[i]) /\ IsSpace(call.text[i + 1])


(***************************************************************************)
(* Tokenizer round trip                                                    *)
(***************************************************************************)
RECURSIVE Concatenation(_)
Concatenation(ms) == IF ms = <<>> THEN <<>> ELSE Head(ms) \o Concatenation(Tail(ms))

\* C11: the matches the tokenizer finds before its whitespace filter, put
\* together in order, are the original text: nothing dropped, doubled or moved.
C11_MatchesRebuildText ==
    Returned("tokenize_text") => Concatenation(tokens) = call.text

\* a text with whitespace runs that the filter removes from the matches
C11_Witness ==
    /\ Returned("tokenize_text")
    /\ Len(tokens) >= 3
    /\ Len(ret) < Len(tokens)
    /\ \E k \in 1..Len(tokens) : Len(tokens[k]) >= 2 /\ IsSpace(tokens[k][1])

(***************************************************************************)
(* The client-side script against the Python functions                     *)
(***************************************************************************)
\* the css classes the dashboard's highlight_tokens gives the tokens of a text
DashboardClasses(text, cluster_texts) ==
    LET spans == highlight_tokens(text, cluster_texts, TRUE)
    IN  [i \in 1..Len(spans) |-> spans[i].class]

\* C12: on the same texts and tokens the script's tokenizer, extractor and
\* highlighter return what the Python tokenizer, extractor and highlighter
\* return: the same tokens, the same common terms in the same order, the same
\* high/low mark for every token (digits, underscores, upper case and
\* non-ASCII letters included).
C12_ClientMatchesPython ==
    /\ Returned("tokenizeText") => ret = tokenize_text(call.text)
    /\ Returned("analyzeCommonWords") =>
           ret = analyze_common_words(call.cluster_texts, call.min_length, call.top_n)
    /\ Returned("highlightPattern") =>
           /\ tokens = tokenize_text(call.text)
           /\ ret = highlight_pattern(tokens, call.is_right_panel, call.cluster_texts)
           /\ (call.is_right_panel /\ call.cluster_texts # <<>>) =>
                  [i \in 1..Len(ret) |-> cssClass(ret[i])]
                      = DashboardClasses(call.text, call.cluster_texts)

(***************************************************************************)
(* The two panels                                                          *)
(***************************************************************************)
\* a renderer shows the panels of a neuron that has data
ShowsPanels ==
    \/ program = "export" /\ status = "open" /\ HasNeuron(all_neuron_data, currentNeuron)
    \/ program = "dashboard" /\ status = "rendered"

\* the series of the selected neuron
SelectedSeries == SeriesOf(all_neuron_data, currentNeuron)

\* the record a panel is rendered from, with or without emphasis
Rendering(record, emphasize) ==
    IF program = "export" THEN generateClusterHTML(record, emphasize)
    ELSE display_cluster_data(record, emphasize)

\* the classes of the tokens a panel shows
ClassesIn(content) ==
    {content.clusters[c].examples[e][t].class :
        <<c, e, t>> \in
            {x \in (1..Len(content.clusters)) \X (1..15) \X (1..15) :
                /\ x[2] <= Len(content.clusters[x[1]].examples)
                /\ x[3] <= Len(content.clusters[x[1]].examples[x[2]])}}

\* the records of the selected step, and the reference record: the first record
\* of step 143000, or else the last record
RecordsOfStep(step) ==
    {k \in 1..Len(SelectedSeries) : SelectedSeries[k].checkpoint_step = step}

ReferenceRecord ==
    IF RecordsOfStep(FinalStep) # {}
    THEN SelectedSeries[CHOOSE k \in RecordsOfStep(FinalStep) :
                            \A j \in RecordsOfStep(FinalStep) : k <= j]
    ELSE SelectedSeries[Len(SelectedSeries)]

\* what the panels show for a neuron with data
PanelsShowSelection ==
    ShowsPanels =>
        /\ finalData = <<ReferenceRecord>>
        /\ rightContent = Rendering(ReferenceRecord, TRUE)
        /\ RecordsOfStep(currentCheckpointStep) # {} =>
               /\ currentData # <<>>
               /\ currentData[1].checkpoint_step = currentCheckpointStep
               /\ leftContent = Rendering(currentData[1], FALSE)
        /\ "activation-high" \notin ClassesIn(leftContent)

\* a step in which only the checkpoint control changed leaves the right panel
OnlyCheckpointChanged ==
    /\ ShowsPanels /\ ShowsPanels'
    /\ program' = program
    /\ model_name' = model_name
    /\ currentNeuron' = currentNeuron

\* C13: for a neuron with data the right panel shows the final record of its
\* series (step 143000 if there is one, else the last record) with emphasis, the
\* left panel shows the record of the selected step without emphasis, so none of
\* its tokens is high; a change of the checkpoint control alone leaves the right
\* panel as it is.
C13_PanelsFollowSelection ==
    /\ []PanelsShowSelection
    /\ [][OnlyCheckpointChanged => rightContent' = rightContent]_vars

\* after a checkpoint event: an earlier record on the left, whose tokens would be
\* high with emphasis, and the final record on the right with high tokens
C13_Witness ==
    /\ ShowsPanels
    /\ currentData # <<>> /\ currentData # finalData
    /\ currentCheckpointStep # checkpoint_steps[1]
    /\ "activation-high" \in ClassesIn(Rendering(currentData[1], TRUE))
    /\ "activation-high" \in ClassesIn(rightContent)
    /\ finalData[1].checkpoint_step = FinalStep

(***************************************************************************)
(* Loading the series files                                                *)
(***************************************************************************)
\* the files the running program looks at, and those with a line that is not
\* JSON
SearchedFiles ==
    IF program = "export"
    THEN FilesIn(disk, "results", "pythia70m")
             \cup FilesIn(disk, "results/pythia70m", "pythia70m")
    ELSE Searched(disk, model_name)

MalformedFiles == {f \in SearchedFiles : ~Parses(f.lines)}

WellFormedFiles == {f \in SearchedFiles : Parses(f.lines) /\ f.lines # <<>>}

\* a file with a malformed line is reported and left out, the others are loaded
MalformedSkipped ==
    /\ status # "crashed"
    /\ \A f \in MalformedFiles :
           /\ \E m \in messages : m.neuron_id = f.neuron_id
           /\ (\A g \in WellFormedFiles : g.neuron_id # f.neuron_id)
                  => ~HasNeuron(all_neuron_data, f.neuron_id)
    /\ \A g \in WellFormedFiles : HasNeuron(all_neuron_data, g.neuron_id)

\* C14: when a series file holds a line that is not valid JSON, an error is
\* reported for that file, its neuron is left out of the loaded data, the other
\* neurons are loaded, and the load does not abort.
C14_MalformedFileSkipped ==
    (program \in {"export", "dashboard"} /\ MalformedFiles # {}) => MalformedSkipped

\* the same for the dashboard alone
C14_DashboardSkips ==
    (program = "dashboard" /\ MalformedFiles # {}) => MalformedSkipped

(***************************************************************************)
(* Missing data                                                            *)
(***************************************************************************)
\* the selected step has no record in the series of the selected neuron
StepMissing == ShowsPanels /\ RecordsOfStep(currentCheckpointStep) = {}

\* C15: when the selected step is absent from the series of the selected neuron,
\* the left panel alone shows 'No data available for this checkpoint'; the right
\* panel is still rendered from the final record.
C15_MissingStepPerPanel ==
    StepMissing =>
        /\ currentData = <<>>
        /\ leftContent = ErrorContent("No data available for this checkpoint")
        /\ rightContent.kind = "clusters"
        /\ rightContent = Rendering(ReferenceRecord, TRUE)

\* a neuron whose series lacks the slider's step: an error on the left, the
\* clusters of the final record on the right
C15_Witness ==
    /\ StepMissing
    /\ leftContent.kind = "error"
    /\ rightContent.kind = "clusters"
    /\ Len(rightContent.clusters) > 0

\* the selected layer and neuron have no loaded series
NoSeries ==
    \/ program = "export" /\ status = "open" /\ ~HasNeuron(all_neuron_data, currentNeuron)
    \/ program = "dashboard" /\ available_neurons # <<>>
           /\ ~HasNeuron(all_neuron_data, currentNeuron)

\* the neuron is reported as having no data, and no panel content is shown
NoSeriesReported ==
    /\ leftContent.clusters = <<>> /\ rightContent.clusters = <<>>
    /\ currentData = <<>> /\ finalData = <<>>
    /\ IF program = "export"
       THEN /\ leftContent = ErrorContent("No data available for this neuron")
            /\ rightContent = ErrorContent("No data available for this neuron")
       ELSE /\ Message("No data available for", currentNeuron) \in messages
            /\ status = "no_data"
            /\ {"layer", "neuron"} \subseteq controls

\* the panels of a neuron with data, as they are rendered
PanelsRendered ==
    /\ ShowsPanels
    /\ rightContent.kind = "clusters"
    /\ finalData # <<>>
    /\ leftContent.kind = IF RecordsOfStep(currentCheckpointStep) # {}
                          THEN "clusters" ELSE "error"

\* an event selects a neuron with a series that has records
SelectsNeuronWithData ==
    /\ HasNeuron(all_neuron_data', currentNeuron')
    /\ SeriesOf(all_neuron_data', currentNeuron') # <<>>

\* C16: a layer and neuron without a loaded series are reported as having no
\* data and no panel content is rendered for them; this is not fatal: an event
\* that then selects a neuron with data renders both panels.
C16_NoSeriesNotFatal ==
    /\ [](NoSeries => NoSeriesReported)
    /\ [][(NoSeries /\ SelectsNeuronWithData) => PanelsRendered']_vars

\* a neuron without a series is selected after one with data was shown
C16_Witness ==
    /\ NoSeries
    /\ NoSeriesReported
    /\ currentNeuron # NeuronId(0, 0)
    /\ HasNeuron(all_neuron_data, NeuronId(0, 0))


(***************************************************************************)
(* No dataset                                                              *)
(***************************************************************************)
\* the check for a dataset stopped the program
HaltedByCheck == status = "halted"

\* C17: when no series file of the model is found, this is reported and
\* rendering halts (the export writes no HTML file, the dashboard creates no
\* control and no panel); when a series with data is found, the check never
\* halts rendering.
C17_HaltsOnlyWithoutDataset ==
    program \in {"export", "dashboard"} =>
        /\ SearchedFiles = {} =>
               /\ HaltedByCheck
               /\ messages # {}
               /\ leftContent.clusters = <<>> /\ rightContent.clusters = <<>>
               /\ IF program = "export" THEN ~html_written ELSE controls = {}
        /\ WellFormedFiles # {} => ~HaltedByCheck

\* the second half of C17 for the dashboard
C17_DashboardNeverHaltsWithData ==
    (program = "dashboard" /\ WellFormedFiles # {}) => ~HaltedByCheck

(***************************************************************************)
(* The clusters of a record                                                *)
(***************************************************************************)
\* the examples of a record that have a label
Labelled(record) ==
    1..Min(Len(record.cluster_labels), Len(record.text_examples))

\* the indices of the examples with a label, and the m-th of them
IndicesOf(record, label) ==
    {i \in Labelled(record) : record.cluster_labels[i] = label}

NthIndexOf(record, label, m) ==
    CHOOSE i \in IndicesOf(record, label) :
        Cardinality({j \in IndicesOf(record, label) : j < i}) = m - 1

\* the clusters of a panel are the partition of the record's examples by label,
\* each cluster in the order of the examples
PartitionOf(content, record) ==
    LET boxes == content.clusters
    IN  /\ {boxes[b].cluster_id : b \in 1..Len(boxes)}
               = {record.cluster_labels[i] : i \in Labelled(record)}
        /\ \A b, c \in 1..Len(boxes) : boxes[b].cluster_id = boxes[c].cluster_id => b = c
        /\ \A b \in 1..Len(boxes) :
               /\ Len(boxes[b].texts) = Cardinality(IndicesOf(record, boxes[b].cluster_id))
               /\ \A m \in 1..Len(boxes[b].texts) :
                      boxes[b].texts[m]
                          = record.text_examples[NthIndexOf(record, boxes[b].cluster_id, m)]

\* C18: the clusters of a rendered record are a partition of its examples: the
\* example at each index that has a label is in the cluster of that label and in
\* no other, and each cluster keeps the order the examples have in text_examples.
C18_GroupingIsOrderedPartition ==
    ShowsPanels =>
        /\ leftContent.kind = "clusters" => PartitionOf(leftContent, currentData[1])
        /\ rightContent.kind = "clusters" => PartitionOf(rightContent, finalData[1])

\* a record with the labels 1, 0, 1 on the left: cluster 0 holds the second
\* example, cluster 1 the first and the third
C18_Witness ==
    /\ ShowsPanels
    /\ leftContent.kind = "clusters"
    /\ currentData[1].cluster_labels = <<1, 0, 1>>
    /\ currentData[1].text_examples[1] # currentData[1].text_examples[3]
    /\ \E b, c \in 1..Len(leftContent.clusters) :
           /\ leftContent.clusters[b].cluster_id = 0
           /\ leftContent.clusters[b].texts = <<currentData[1].text_examples[2]>>
           /\ leftContent.clusters[c].cluster_id = 1
           /\ leftContent.clusters[c].texts
                  = <<currentData[1].text_examples[1], currentData[1].text_examples[3]>>

\* the panels rendered from records, each with its record
RenderedPanels ==
    IF ~ShowsPanels THEN {}
    ELSE (IF leftContent.kind = "clusters" THEN {<<leftContent, currentData[1]>>} ELSE {})
             \cup (IF rightContent.kind = "clusters" THEN {<<rightContent, finalData[1]>>}
                   ELSE {})

PaletteSize == IF program = "export" THEN ExportPaletteSize ELSE DashboardPaletteSize

\* the index at which a label is first met in a record
FirstIndexOf(record, label) ==
    CHOOSE i \in IndicesOf(record, label) : \A j \in IndicesOf(record, label) : i <= j

\* every cluster has a position of the palette as its colour: the export takes
\* the cluster's position, the dashboard its label, modulo the palette's size
ColoursWrap(content) ==
    \A b \in 1..Len(content.clusters) :
        /\ content.clusters[b].color \in 0..(PaletteSize - 1)
        /\ \E q \in -2..2 :
               content.clusters[b].color + q * PaletteSize
                   = IF program = "export" THEN b - 1 ELSE content.clusters[b].cluster_id

\* the clusters in the order in which their labels are first met
InFirstSeenOrder(content, record) ==
    \A b, c \in 1..Len(content.clusters) :
        b < c => FirstIndexOf(record, content.clusters[b].cluster_id)
                     < FirstIndexOf(record, content.clusters[c].cluster_id)

\* the clusters in ascending order of their labels
InAscendingOrder(content) ==
    \A b, c \in 1..Len(content.clusters) :
        b < c => content.clusters[b].cluster_id < content.clusters[c].cluster_id

StepsOfSelected ==
    {SelectedSeries[k].checkpoint_step : k \in 1..Len(SelectedSeries)}

\* C20: whenever the dashboard renders its panels, the options of the checkpoint
\* selector are the steps of the selected neuron's series and the selected
\* checkpoint is one of them, so the left panel never shows 'No data available
\* for this checkpoint'.
C20_DashboardStepAlwaysFound ==
    (program = "dashboard" /\ status = "rendered") =>
        /\ Elements(checkpoint_steps) = StepsOfSelected
        /\ currentCheckpointStep \in StepsOfSelected
        /\ currentData # <<>>
        /\ currentData[1].checkpoint_step = currentCheckpointStep
        /\ leftContent.kind = "clusters"
        /\ leftContent # ErrorContent("No data available for this checkpoint")

\* the dashboard shows a later checkpoint of a neuron whose series has other
\* steps than the series of the first neuron
C20_Witness ==
    /\ program = "dashboard" /\ status = "rendered"
    /\ StepsOfSelected # {all_neuron_data[1][2][k].checkpoint_step :
                              k \in 1..Len(all_neuron_data[1][2])}
    /\ currentCheckpointStep # checkpoint_steps[1]
    /\ leftContent.kind = "clusters"
====
